---- MODULE Spec2Model ----
(***************************************************************************)
(* Model of monitord's monitoring service (internal/monitor): the Service  *)
(* with its endpoint map, stored configuration and wait group, the polling *)
(* loops, the configuration-watch loop with reloadConfig's reconciliation, *)
(* Shutdown, and the probe classification of performHealthCheck.           *)
(***************************************************************************)
EXTENDS Integers, Sequences, FiniteSets, TLC

(* ---- bounds of the model ---- *)
\* longest endpoint list of a configuration
MaxEndpoints == 2
\* number of EndpointMonitor objects the service creates in one run
MaxMonitors == 3
\* last reading of the clock of the polling loops, in steps of 30 s
MaxTime == 4
\* number of polling loops followed step by step in one run
MaxLoops == 2
\* largest count of outstanding workers of a ShutdownManager
MaxWorkers == 2
\* last reading of the clock of a ShutdownManager, in seconds
MaxWait == 6

VARIABLES
    config,          \* s.config: the stored MonitorConfig
    endpoints,       \* s.endpoints: URL -> monitor (a slot of monitors)
    monitors,        \* the EndpointMonitor objects, each with its loop and scope
    wg,              \* s.shutdownWg: the outstanding-worker counter
    rootCancelled,   \* the context passed to Start has been cancelled
    startPc,         \* "init" until Start has returned, then "done"
    watchPc,         \* watchConfig goroutine: "none", "waiting", "exited"
    reconciled,      \* some reloadConfig has replaced the map and the configuration
    shutdownPc,      \* Shutdown: "none", "draining" (in its select), "returned"
    shutdownErr,     \* what Shutdown returned: "none", "nil", "timeout"
    probeEndpoint,   \* performHealthCheck: the endpoint argument
    probeOutcome,    \* performHealthCheck: what client.Get returned, and when
    check,           \* performHealthCheck: the HealthCheck returned
    now,             \* the clock
    loops,           \* monitorEndpoint goroutines: position, ticker, lastCheck
    saved,           \* the HealthCheck the storage accepted last (monitor, timestamp)
    mu,              \* s.mu: the holder of the Service lock
    threads,         \* the callers of Start, reloadConfig and Shutdown, step by step
    sm               \* a ShutdownManager and the call of its Shutdown

vars == <<config, endpoints, monitors, wg, rootCancelled, startPc, watchPc,
          reconciled, shutdownPc, shutdownErr, probeEndpoint, probeOutcome, check,
          now, loops, saved, mu, threads, sm>>

probeVars == <<probeEndpoint, probeOutcome, check>>

\* the Service as the operations of Spec see it
serviceVars == <<config, endpoints, monitors, wg, rootCancelled, startPc, watchPc,
                 reconciled, shutdownPc, shutdownErr>>

\* the polling loops and the clock, step by step
loopVars == <<now, loops, saved>>

\* the Service lock and the position of each caller
lockVars == <<mu, threads>>

\* what the operations of Spec take in one step each
stepVars == <<loopVars, lockVars, sm>>

(* ---- config.Endpoint values ---- *)
Base(u) ==
    [Name |-> "n1", URL |-> u, Interval |-> 60, Timeout |-> 10,
     Description |-> "d1", Tags |-> <<"a", "b">>, Enabled |-> TRUE]

\* the endpoints of the configurations: u1 as it is first written, u1 with one
\* compared field edited, u1 disabled, and a second URL
EndpointValues ==
    { Base("u1"),
      [Base("u1") EXCEPT !.Interval = 30],
      [Base("u1") EXCEPT !.Enabled = FALSE],
      Base("u2") }

\* the sequences over S of length at most n that list no value twice
SeqsUpTo(S, n) ==
    { s \in UNION { [1..k -> S] : k \in 0..n } :
        \A i, j \in DOMAIN s : i # j => s[i] # s[j] }

\* config.MonitorConfig values: the endpoint lists a configuration file may hold
Configs == { [Endpoints |-> es] : es \in SeqsUpTo(EndpointValues, MaxEndpoints) }

\* what the reload collaborator returns: an error or a configuration
ReloadResults ==
    { [err |-> TRUE, cfg |-> [Endpoints |-> << >>]] }
        \cup { [err |-> FALSE, cfg |-> c] : c \in Configs }

(* ---- helpers ---- *)
MapPut(m, k, v) == [x \in (DOMAIN m) \cup {k} |-> IF x = k THEN v ELSE m[x]]

EmptyMap == [x \in {} |-> 0]

\* the URLs of the enabled endpoints of an endpoint list
EnabledURLs(es) == { es[i].URL : i \in { j \in DOMAIN es : es[j].Enabled } }

\* sliceEqual: same length and equal element by element
sliceEqual(a, b) ==
    IF Len(a) # Len(b) THEN FALSE
    ELSE \A i \in 1..Len(a) : a[i] = b[i]

\* endpointConfigEqual without the comparison of the tags
endpointConfigEqualNoTags(a, b) ==
    /\ a.URL = b.URL
    /\ a.Interval = b.Interval
    /\ a.Timeout = b.Timeout
    /\ a.Name = b.Name

\* endpointConfigEqual with the tags compared as sets
endpointConfigEqualTagsAsSets(a, b) ==
    /\ a.URL = b.URL
    /\ a.Interval = b.Interval
    /\ a.Timeout = b.Timeout
    /\ a.Name = b.Name
    /\ { a.Tags[p] : p \in DOMAIN a.Tags } = { b.Tags[p] : p \in DOMAIN b.Tags }

\* endpointConfigEqual: URL, Interval, Timeout, Name and Tags are compared
endpointConfigEqual(a, b) ==
    /\ a.URL = b.URL
    /\ a.Interval = b.Interval
    /\ a.Timeout = b.Timeout
    /\ a.Name = b.Name
    /\ sliceEqual(a.Tags, b.Tags)

(* ---- EndpointMonitor objects ---- *)
\* what is left of an EndpointMonitor whose loop has returned and that the map
\* no longer holds: nothing refers to it, its fields are gone
Gone == [endpoint |-> Base("u1"), cancelled |-> TRUE, parent |-> "none", pc |-> "gone"]

Sweep(ms, eps) ==
    [i \in DOMAIN ms |->
        IF ms[i].pc = "exited" /\ ~(\E u \in DOMAIN eps : eps[u] = i)
        THEN Gone ELSE ms[i]]

\* the scope of monitor i is cancelled: its own cancel was called, or the
\* context it was derived from is cancelled (context.Background() never is)
ScopeCancelledIn(ms, root, i) ==
    ms[i].cancelled \/ (ms[i].parent = "root" /\ root)

ScopeCancelled(i) == ScopeCancelledIn(monitors, rootCancelled, i)

\* monitor.cancel()
cancelMonitor(st, id) ==
    [st EXCEPT !.monitors[id].cancelled = TRUE,
               !.ops = Append(@, <<"cancel", id>>)]

\* startEndpoint without shutdownWg.Add(1)
startEndpointNoAdd(st, parent, endpoint) ==
    LET id == Len(st.monitors) + 1
        monitor == [endpoint |-> endpoint, cancelled |-> FALSE,
                    parent |-> parent, pc |-> "running"]
    IN [st EXCEPT !.monitors = Append(@, monitor),
                  !.endpoints = MapPut(@, endpoint.URL, id),
                  !.ops = Append(@, <<"start", id>>)]

\* startEndpoint: derive a scope from parent, register the new monitor under
\* endpoint.URL, add one to the wait group, launch the polling loop
startEndpoint(st, parent, endpoint) ==
    LET id == Len(st.monitors) + 1
        monitor == [endpoint |-> endpoint, cancelled |-> FALSE,
                    parent |-> parent, pc |-> "running"]
    IN [st EXCEPT !.monitors = Append(@, monitor),
                  !.endpoints = MapPut(@, endpoint.URL, id),
                  !.wg = @ + 1,
                  !.ops = Append(@, <<"start", id>>)]

\* the local state of Start and of reloadConfig's critical section
Locals(eps, ms, w) ==
    [endpoints |-> eps, newEndpoints |-> EmptyMap, monitors |-> ms, wg |-> w,
     ops |-> << >>]

\* the loop of Start over s.config.Endpoints, from index i on
RECURSIVE StartLoop(_, _, _)
StartLoop(st, es, i) ==
    IF i > Len(es) THEN st
    ELSE IF ~es[i].Enabled THEN StartLoop(st, es, i + 1)
    ELSE StartLoop(startEndpoint(st, "root", es[i]), es, i + 1)

\* ReloadStep without the check of endpoint.Enabled
ReloadStepIgnoreEnabled(st, endpoint) ==
    IF endpoint.URL \in DOMAIN st.endpoints
    THEN LET id == st.endpoints[endpoint.URL]
             st1 == IF ~endpointConfigEqual(st.monitors[id].endpoint, endpoint)
                    THEN startEndpoint(cancelMonitor(st, id), "background", endpoint)
                    ELSE st
         IN [st1 EXCEPT !.newEndpoints =
                 MapPut(@, endpoint.URL, st1.endpoints[endpoint.URL])]
    ELSE LET st1 == startEndpoint(st, "background", endpoint)
         IN [st1 EXCEPT !.newEndpoints =
                 MapPut(@, endpoint.URL, st1.endpoints[endpoint.URL])]

\* one iteration of reloadConfig's loop over cfg.Monitor.Endpoints
ReloadStep(st, endpoint) ==
    IF ~endpoint.Enabled THEN st
    ELSE IF endpoint.URL \in DOMAIN st.endpoints
    THEN LET id == st.endpoints[endpoint.URL]
             st1 == IF ~endpointConfigEqual(st.monitors[id].endpoint, endpoint)
                    THEN startEndpoint(cancelMonitor(st, id), "background", endpoint)
                    ELSE st
         IN [st1 EXCEPT !.newEndpoints =
                 MapPut(@, endpoint.URL, st1.endpoints[endpoint.URL])]
    ELSE LET st1 == startEndpoint(st, "background", endpoint)
         IN [st1 EXCEPT !.newEndpoints =
                 MapPut(@, endpoint.URL, st1.endpoints[endpoint.URL])]

RECURSIVE ReloadLoop(_, _, _)
ReloadLoop(st, es, i) ==
    IF i > Len(es) THEN st
    ELSE ReloadLoop(ReloadStep(st, es[i]), es, i + 1)

\* the monitors reloadConfig's second loop cancels: those registered under a
\* URL that newEndpoints does not hold
RemovedIds(st) ==
    { st.endpoints[u] : u \in (DOMAIN st.endpoints) \ (DOMAIN st.newEndpoints) }

\* StopRemoved without the calls of cancel
StopRemovedNoCancel(st) == st

StopRemoved(st) ==
    [st EXCEPT !.monitors =
        [i \in DOMAIN st.monitors |->
            IF i \in RemovedIds(st)
            THEN [st.monitors[i] EXCEPT !.cancelled = TRUE]
            ELSE st.monitors[i]]]

\* the critical section of reloadConfig up to the replacement of the map
Reconcile(eps, ms, w, cfg) ==
    StopRemoved(ReloadLoop(Locals(eps, ms, w), cfg.Endpoints, 1))

(* ---- performHealthCheck ---- *)
\* what client.Get returns: a transport error, or a response with its status
\* code; start and elapsed are the clock readings around the request
ProbeOutcomes ==
    { [err |-> e, code |-> 0, start |-> t, elapsed |-> d] :
          e \in {"connection refused", "timeout"}, t \in {1, 2}, d \in {3, 4} }
    \cup
    { [err |-> "", code |-> c, start |-> t, elapsed |-> d] :
          c \in {200, 201, 404, 503}, t \in {1, 2}, d \in {3, 4} }

\* the endpoints a probe is made for: every field that the HealthCheck copies
ProbeEndpoints ==
    { [Base(u) EXCEPT !.Name = n, !.Tags = g] :
          u \in {"u1", "u2"}, n \in {"n1", "n2"}, g \in {<< >>, <<"a", "b">>} }

NoCheck ==
    [Name |-> "", URL |-> "", Status |-> "", StatusCode |-> 0, ResponseTime |-> 0,
     Timestamp |-> 0, Error |-> "", Tags |-> << >>]

\* performHealthCheck with every code below 300 classified as UP
performHealthCheckAny2xx(endpoint, out) ==
    LET c0 == [NoCheck EXCEPT !.Name = endpoint.Name, !.URL = endpoint.URL,
                              !.Tags = endpoint.Tags, !.Timestamp = out.start]
    IN IF out.err # ""
       THEN [c0 EXCEPT !.Status = "ERROR", !.Error = out.err]
       ELSE LET c1 == [c0 EXCEPT !.StatusCode = out.code,
                                 !.ResponseTime = out.elapsed]
            IN IF out.code < 300
               THEN [c1 EXCEPT !.Status = "UP"]
               ELSE [c1 EXCEPT !.Status = "DEGRADED"]

\* performHealthCheck: one request, classified
performHealthCheck(endpoint, out) ==
    LET c0 == [NoCheck EXCEPT !.Name = endpoint.Name, !.URL = endpoint.URL,
                              !.Tags = endpoint.Tags, !.Timestamp = out.start]
    IN IF out.err # ""
       THEN [c0 EXCEPT !.Status = "ERROR", !.Error = out.err]
       ELSE LET c1 == [c0 EXCEPT !.StatusCode = out.code,
                                 !.ResponseTime = out.elapsed]
            IN IF out.code = 200
               THEN [c1 EXCEPT !.Status = "UP"]
               ELSE [c1 EXCEPT !.Status = "DEGRADED"]

(* ---- the service ---- *)
\* NewService: the map is empty, nothing runs
InitService ==
    /\ endpoints = EmptyMap
    /\ monitors = << >>
    /\ wg = 0
    /\ rootCancelled = FALSE
    /\ startPc = "init"
    /\ watchPc = "none"
    /\ reconciled = FALSE
    /\ shutdownPc = "none"
    /\ shutdownErr = "none"

\* no polling loop is followed step by step, the storage is empty
InitLoops ==
    /\ now = 0
    /\ loops = << >>
    /\ saved = {}

\* nobody holds the Service lock, no caller is followed step by step
InitLock ==
    /\ mu = "none"
    /\ threads = << >>

\* no ShutdownManager is in use
InitManager == sm = << >>

Init ==
    /\ config \in Configs
    /\ InitService
    /\ probeEndpoint = Base("u1")
    /\ probeOutcome = [err |-> "", code |-> 0, start |-> 0, elapsed |-> 0]
    /\ check = NoCheck
    /\ InitLoops
    /\ InitLock
    /\ InitManager

\* main returns once Shutdown has returned, and the process ends
ProcessAlive == shutdownPc # "returned"

\* Service.Start: one polling loop per enabled endpoint, then the watch loop
Start ==
    /\ startPc = "init"
    /\ \E st \in {StartLoop(Locals(endpoints, monitors, wg), config.Endpoints, 1)} :
          /\ endpoints' = st.endpoints
          /\ monitors' = st.monitors
          /\ wg' = st.wg + 1
    /\ watchPc' = "waiting"
    /\ startPc' = "done"
    /\ UNCHANGED <<config, rootCancelled, reconciled, shutdownPc, shutdownErr>>
    /\ UNCHANGED probeVars
    /\ UNCHANGED stepVars

\* the caller of Start cancels the context it passed
CancelRoot ==
    /\ startPc = "done"
    /\ ProcessAlive
    /\ ~rootCancelled
    /\ rootCancelled' = TRUE
    /\ UNCHANGED <<config, endpoints, monitors, wg, startPc, watchPc, reconciled,
                   shutdownPc, shutdownErr>>
    /\ UNCHANGED probeVars
    /\ UNCHANGED stepVars

\* monitorEndpoint: the loop observes ctx.Done(), returns, and runs Done()
MonitorExit(i) ==
    /\ ProcessAlive
    /\ monitors[i].pc = "running"
    /\ ScopeCancelled(i)
    /\ monitors' = Sweep([monitors EXCEPT ![i].pc = "exited"], endpoints)
    /\ wg' = wg - 1
    /\ UNCHANGED <<config, endpoints, rootCancelled, startPc, watchPc, reconciled,
                   shutdownPc, shutdownErr>>
    /\ UNCHANGED probeVars
    /\ UNCHANGED stepVars

\* the scope of watchConfig is the context passed to Start
WatchScopeCancelled(root) == root

\* watchConfig: the loop observes ctx.Done(), returns, and runs Done()
WatchExit ==
    /\ ProcessAlive
    /\ watchPc = "waiting"
    /\ WatchScopeCancelled(rootCancelled)
    /\ watchPc' = "exited"
    /\ wg' = wg - 1
    /\ UNCHANGED <<config, endpoints, monitors, rootCancelled, startPc, reconciled,
                   shutdownPc, shutdownErr>>
    /\ UNCHANGED probeVars
    /\ UNCHANGED stepVars

\* reloadConfigOutcome without the return on the collaborator's error
reloadConfigOutcomeNoErrCheck(eps, ms, w, cfg, r) ==
    LET st == Reconcile(eps, ms, w, r.cfg)
    IN [endpoints |-> st.newEndpoints, config |-> r.cfg,
        monitors |-> Sweep(st.monitors, st.newEndpoints), wg |-> st.wg,
        err |-> r.err]

\* reloadConfig with the collaborator's result r: what it leaves in the
\* Service and what it returns
reloadConfigOutcome(eps, ms, w, cfg, r) ==
    IF r.err
    THEN [endpoints |-> eps, config |-> cfg, monitors |-> ms, wg |-> w,
          err |-> TRUE]
    ELSE LET st == Reconcile(eps, ms, w, r.cfg)
         IN [endpoints |-> st.newEndpoints, config |-> r.cfg,
             monitors |-> Sweep(st.monitors, st.newEndpoints), wg |-> st.wg,
             err |-> FALSE]

\* watchConfig's tick: reloadConfig with the collaborator's result r; the
\* loop logs an error and waits for the next tick
reloadConfig(r) ==
    /\ ProcessAlive
    /\ watchPc = "waiting"
    /\ \E out \in {reloadConfigOutcome(endpoints, monitors, wg, config, r)} :
          /\ Len(out.monitors) <= MaxMonitors
          /\ endpoints' = out.endpoints
          /\ config' = out.config
          /\ monitors' = out.monitors
          /\ wg' = out.wg
          /\ reconciled' = (reconciled \/ ~out.err)
    /\ UNCHANGED <<rootCancelled, startPc, watchPc, shutdownPc, shutdownErr>>
    /\ UNCHANGED probeVars
    /\ UNCHANGED stepVars

WatchTick == \E r \in ReloadResults : reloadConfig(r)

\* Shutdown ending the loops of the map itself
ShutdownStoppingLoops ==
    /\ startPc = "done"
    /\ shutdownPc = "none"
    /\ monitors' = [i \in DOMAIN monitors |->
                      IF \E u \in DOMAIN endpoints : endpoints[u] = i
                      THEN [monitors[i] EXCEPT !.cancelled = TRUE, !.pc = "exited"]
                      ELSE monitors[i]]
    /\ shutdownPc' = "draining"
    /\ UNCHANGED <<config, endpoints, wg, rootCancelled, startPc, watchPc,
                   reconciled, shutdownErr>>
    /\ UNCHANGED probeVars
    /\ UNCHANGED stepVars

\* Service.Shutdown up to its select: cancel every monitor of the map
Shutdown ==
    /\ startPc = "done"
    /\ shutdownPc = "none"
    /\ monitors' = [i \in DOMAIN monitors |->
                      IF \E u \in DOMAIN endpoints : endpoints[u] = i
                      THEN [monitors[i] EXCEPT !.cancelled = TRUE]
                      ELSE monitors[i]]
    /\ shutdownPc' = "draining"
    /\ UNCHANGED <<config, endpoints, wg, rootCancelled, startPc, watchPc,
                   reconciled, shutdownErr>>
    /\ UNCHANGED probeVars
    /\ UNCHANGED stepVars

\* Shutdown's select, case <-done: shutdownWg.Wait() has returned; nil
ShutdownReturnNil ==
    /\ shutdownPc = "draining"
    /\ wg = 0
    /\ shutdownPc' = "returned"
    /\ shutdownErr' = "nil"
    /\ UNCHANGED <<config, endpoints, monitors, wg, rootCancelled, startPc,
                   watchPc, reconciled>>
    /\ UNCHANGED probeVars
    /\ UNCHANGED stepVars

\* ShutdownReturnTimeout returning nil in place of ctx.Err()
ShutdownReturnTimeoutAsNil ==
    /\ shutdownPc = "draining"
    /\ shutdownPc' = "returned"
    /\ shutdownErr' = "nil"
    /\ UNCHANGED <<config, endpoints, monitors, wg, rootCancelled, startPc,
                   watchPc, reconciled>>
    /\ UNCHANGED probeVars
    /\ UNCHANGED stepVars

\* Shutdown's select, case <-ctx.Done(): the deadline has passed; ctx.Err()
ShutdownReturnTimeout ==
    /\ shutdownPc = "draining"
    /\ shutdownPc' = "returned"
    /\ shutdownErr' = "timeout"
    /\ UNCHANGED <<config, endpoints, monitors, wg, rootCancelled, startPc,
                   watchPc, reconciled>>
    /\ UNCHANGED probeVars
    /\ UNCHANGED stepVars

Next ==
    \/ Start
    \/ CancelRoot
    \/ \E i \in DOMAIN monitors : MonitorExit(i)
    \/ WatchExit
    \/ WatchTick
    \/ Shutdown
    \/ ShutdownReturnNil
    \/ ShutdownReturnTimeout

Spec == Init /\ [][Next]_vars

(* ---- one probe ---- *)
InitProbe ==
    /\ config = [Endpoints |-> << >>]
    /\ InitService
    /\ probeEndpoint \in ProbeEndpoints
    /\ probeOutcome \in ProbeOutcomes
    /\ check = NoCheck
    /\ InitLoops
    /\ InitLock
    /\ InitManager

\* one call of performHealthCheck
Probe ==
    /\ check = NoCheck
    /\ check' = performHealthCheck(probeEndpoint, probeOutcome)
    /\ UNCHANGED <<config, endpoints, monitors, wg, rootCancelled, startPc,
                   watchPc, reconciled, shutdownPc, shutdownErr>>
    /\ UNCHANGED <<probeEndpoint, probeOutcome>>
    /\ UNCHANGED stepVars

NextProbe == Probe

SpecProbe == InitProbe /\ [][NextProbe]_vars

(* ---- the polling loops, step by step and in time ---- *)
\* a duration in steps of the clock (one step is 30 s)
Ticks(d) == d \div 30

\* the configurations of the runs that follow the loops: no endpoint, or u1
\* enabled with one of its intervals
LoopConfigs ==
    { c \in Configs :
        /\ Len(c.Endpoints) <= 1
        /\ \A k \in DOMAIN c.Endpoints :
               c.Endpoints[k].URL = "u1" /\ c.Endpoints[k].Enabled }

LoopReloadResults ==
    { [err |-> TRUE, cfg |-> [Endpoints |-> << >>]] }
        \cup { [err |-> FALSE, cfg |-> c] : c \in LoopConfigs }

\* a monitorEndpoint goroutine that has returned: its ticker is stopped
ReturnedLoop ==
    [pc |-> "returned", started |-> 0, next |-> 0, pending |-> FALSE,
     check |-> 0, lastCheck |-> 0]

\* monitorEndpoint up to its select: the ticker is made at the time the loop
\* starts and fires first one interval later (started is kept until the
\* loop takes its first tick)
NewLoop(endpoint, t) ==
    [pc |-> "select", started |-> t, next |-> t + Ticks(endpoint.Interval),
     pending |-> FALSE, check |-> 0, lastCheck |-> 0]

\* the loops after a step of the Service that left the monitors ms: one new
\* loop per new monitor
LoopsFor(ms, t) ==
    [i \in DOMAIN ms |->
        IF i \in DOMAIN loops
        THEN (IF ms[i].pc = "gone" THEN ReturnedLoop ELSE loops[i])
        ELSE NewLoop(ms[i].endpoint, t)]

\* the ticker of a loop at the clock reading t: a tick is put in ticker.C (a
\* channel of capacity one) when the interval has passed
TickerAt(l, endpoint, t) ==
    IF l.pc # "returned" /\ l.next = t
    THEN [l EXCEPT !.pending = TRUE, !.next = t + Ticks(endpoint.Interval)]
    ELSE l

\* a loop blocked in its select has a case that can proceed
Ready(i) ==
    loops[i].pc = "select" /\ (loops[i].pending \/ ScopeCancelled(i))

InitAtNow ==
    /\ config \in LoopConfigs
    /\ InitService
    /\ probeEndpoint = Base("u1")
    /\ probeOutcome = [err |-> "", code |-> 0, start |-> 0, elapsed |-> 0]
    /\ check = NoCheck
    /\ InitLoops
    /\ InitLock
    /\ InitManager

\* Service.Start at the clock reading now
StartAtNow ==
    /\ startPc = "init"
    /\ \E st \in {StartLoop(Locals(endpoints, monitors, wg), config.Endpoints, 1)} :
          /\ endpoints' = st.endpoints
          /\ monitors' = st.monitors
          /\ wg' = st.wg + 1
          /\ loops' = LoopsFor(st.monitors, now)
    /\ watchPc' = "waiting"
    /\ startPc' = "done"
    /\ UNCHANGED <<config, rootCancelled, reconciled, shutdownPc, shutdownErr>>
    /\ UNCHANGED <<now, saved>>
    /\ UNCHANGED <<probeVars, lockVars, sm>>

\* watchConfig's tick at the clock reading now
reloadConfigAtNow(r) ==
    /\ watchPc = "waiting"
    /\ \E out \in {reloadConfigOutcome(endpoints, monitors, wg, config, r)} :
          /\ Len(out.monitors) <= MaxLoops
          /\ endpoints' = out.endpoints
          /\ config' = out.config
          /\ monitors' = out.monitors
          /\ wg' = out.wg
          /\ reconciled' = (reconciled \/ ~out.err)
          /\ loops' = LoopsFor(out.monitors, now)
    /\ UNCHANGED <<rootCancelled, startPc, watchPc, shutdownPc, shutdownErr>>
    /\ UNCHANGED <<now, saved>>
    /\ UNCHANGED <<probeVars, lockVars, sm>>

WatchTickAtNow == \E r \in LoopReloadResults : reloadConfigAtNow(r)

\* the clock advances while no blocked loop can proceed; the tickers fire
Advance ==
    /\ now < MaxTime
    /\ \A i \in DOMAIN loops : ~Ready(i)
    /\ now' = now + 1
    /\ loops' = [i \in DOMAIN loops |->
                    TickerAt(loops[i], monitors[i].endpoint, now + 1)]
    /\ UNCHANGED saved
    /\ UNCHANGED <<serviceVars, probeVars, lockVars, sm>>

\* monitorEndpoint, case <-ticker.C: performHealthCheck starts; the select
\* takes any case that can proceed
LoopTick(i) ==
    /\ loops[i].pc = "select"
    /\ loops[i].pending
    /\ loops' = [loops EXCEPT ![i].pending = FALSE, ![i].pc = "checking",
                              ![i].check = now, ![i].started = 0]
    /\ UNCHANGED <<now, saved>>
    /\ UNCHANGED <<serviceVars, probeVars, lockVars, sm>>

\* SaveCheckStep with the loop returning when the storage fails
SaveCheckStepReturnOnError(i, ok) ==
    /\ loops[i].pc = "checking"
    /\ saved' = IF ok THEN {<<i, loops[i].check>>} ELSE saved
    /\ IF ok
       THEN /\ loops' = [loops EXCEPT ![i].pc = "select", ![i].check = 0,
                                      ![i].lastCheck = loops[i].check]
            /\ UNCHANGED <<monitors, wg>>
       ELSE /\ loops' = [loops EXCEPT ![i] = ReturnedLoop]
            /\ monitors' = Sweep([monitors EXCEPT ![i].pc = "exited"], endpoints)
            /\ wg' = wg - 1
    /\ UNCHANGED now
    /\ UNCHANGED <<config, endpoints, rootCancelled, startPc, watchPc, reconciled,
                   shutdownPc, shutdownErr>>
    /\ UNCHANGED <<probeVars, lockVars, sm>>

\* monitorEndpoint, the rest of the tick's case: performHealthCheck has
\* returned, storage.SaveCheck accepts the check (ok) or fails, the failure is
\* logged, lastCheck is set
SaveCheckStep(i, ok) ==
    /\ loops[i].pc = "checking"
    /\ saved' = IF ok THEN {<<i, loops[i].check>>} ELSE saved
    /\ loops' = [loops EXCEPT ![i].pc = "select", ![i].check = 0,
                              ![i].lastCheck = loops[i].check]
    /\ UNCHANGED now
    /\ UNCHANGED <<serviceVars, probeVars, lockVars, sm>>

\* LoopExit with a break in place of the return: the select is left and the
\* for loop goes round again
LoopExitBreak(i) ==
    /\ loops[i].pc = "select"
    /\ ScopeCancelled(i)
    /\ UNCHANGED vars

\* monitorEndpoint, case <-ctx.Done(): the loop returns, the ticker is
\* stopped, Done() is run
LoopExit(i) ==
    /\ loops[i].pc = "select"
    /\ ScopeCancelled(i)
    /\ loops' = [loops EXCEPT ![i] = ReturnedLoop]
    /\ monitors' = Sweep([monitors EXCEPT ![i].pc = "exited"], endpoints)
    /\ wg' = wg - 1
    /\ UNCHANGED <<now, saved>>
    /\ UNCHANGED <<config, endpoints, rootCancelled, startPc, watchPc, reconciled,
                   shutdownPc, shutdownErr>>
    /\ UNCHANGED <<probeVars, lockVars, sm>>

NextAtNow ==
    \/ StartAtNow
    \/ WatchTickAtNow
    \/ Advance
    \/ \E i \in DOMAIN loops : LoopTick(i)
    \/ \E i \in DOMAIN loops : \E ok \in BOOLEAN : SaveCheckStep(i, ok)
    \/ \E i \in DOMAIN loops : LoopExit(i)

SpecAtNow == InitAtNow /\ [][NextAtNow]_vars

(* ---- the ShutdownManager ---- *)
\* NewShutdownManager: the timeout in seconds
ManagerTimeout == 5

\* NewShutdownManager, with no call of Shutdown yet: wg is the count of the
\* WaitGroup; pc is the position of Shutdown, waiter that of the goroutine it
\* starts, done the channel that goroutine closes, deadline the reading at
\* which time.After fires
NewShutdownManager ==
    [wg |-> 0, timeout |-> ManagerTimeout, pc |-> "idle", waiter |-> "none",
     done |-> FALSE, deadline |-> 0, result |-> "none"]

InitDrain ==
    /\ config = [Endpoints |-> << >>]
    /\ InitService
    /\ probeEndpoint = Base("u1")
    /\ probeOutcome = [err |-> "", code |-> 0, start |-> 0, elapsed |-> 0]
    /\ check = NoCheck
    /\ InitLoops
    /\ InitLock
    /\ sm = NewShutdownManager

\* ShutdownManager.Add; workers register before Shutdown is called
ManagerAdd(delta) ==
    /\ sm.pc = "idle"
    /\ sm.wg + delta <= MaxWorkers
    /\ sm' = [sm EXCEPT !.wg = @ + delta]
    /\ UNCHANGED <<now, loops, saved>>
    /\ UNCHANGED <<serviceVars, probeVars, lockVars>>

\* ShutdownManager.Done: a worker has finished
ManagerDone ==
    /\ sm.wg > 0
    /\ sm' = [sm EXCEPT !.wg = @ - 1]
    /\ UNCHANGED <<now, loops, saved>>
    /\ UNCHANGED <<serviceVars, probeVars, lockVars>>

\* ShutdownManager.Shutdown up to its select: the waiting goroutine is
\* started, time.After is armed
ManagerShutdown ==
    /\ sm.pc = "idle"
    /\ sm' = [sm EXCEPT !.pc = "select", !.waiter = "waiting",
                        !.deadline = now + sm.timeout]
    /\ UNCHANGED <<now, loops, saved>>
    /\ UNCHANGED <<serviceVars, probeVars, lockVars>>

\* the goroutine of Shutdown: wg.Wait() returns at count zero, done is closed
ManagerWaitReturns ==
    /\ sm.waiter = "waiting"
    /\ sm.wg = 0
    /\ sm' = [sm EXCEPT !.waiter = "returned", !.done = TRUE]
    /\ UNCHANGED <<now, loops, saved>>
    /\ UNCHANGED <<serviceVars, probeVars, lockVars>>

\* Shutdown's select, case <-done
ManagerReturnTrue ==
    /\ sm.pc = "select"
    /\ sm.done
    /\ sm' = [sm EXCEPT !.pc = "returned", !.result = "true"]
    /\ UNCHANGED <<now, loops, saved>>
    /\ UNCHANGED <<serviceVars, probeVars, lockVars>>

\* ManagerReturnFalse returning true
ManagerReturnFalseAsTrue ==
    /\ sm.pc = "select"
    /\ now >= sm.deadline
    /\ sm' = [sm EXCEPT !.pc = "returned", !.result = "true"]
    /\ UNCHANGED <<now, loops, saved>>
    /\ UNCHANGED <<serviceVars, probeVars, lockVars>>

\* Shutdown's select, case <-time.After(sm.timeout)
ManagerReturnFalse ==
    /\ sm.pc = "select"
    /\ now >= sm.deadline
    /\ sm' = [sm EXCEPT !.pc = "returned", !.result = "false"]
    /\ UNCHANGED <<now, loops, saved>>
    /\ UNCHANGED <<serviceVars, probeVars, lockVars>>

\* a second passes while neither the select nor wg.Wait() can proceed
AdvanceSeconds ==
    /\ now < MaxWait
    /\ ~(sm.pc = "select" /\ (sm.done \/ now >= sm.deadline))
    /\ ~(sm.waiter = "waiting" /\ sm.wg = 0)
    /\ now' = now + 1
    /\ UNCHANGED <<loops, saved, sm>>
    /\ UNCHANGED <<serviceVars, probeVars, lockVars>>

NextDrain ==
    \/ \E delta \in 1..MaxWorkers : ManagerAdd(delta)
    \/ ManagerDone
    \/ ManagerShutdown
    \/ ManagerWaitReturns
    \/ ManagerReturnTrue
    \/ ManagerReturnFalse
    \/ AdvanceSeconds

SpecDrain == InitDrain /\ [][NextDrain]_vars

(* ---- Start, reloadConfig and Shutdown, statement by statement ---- *)
\* the watch goroutine outside reloadConfig; Start before its loop
IdleThreads ==
    [startI |-> 0,
     reload |-> [pc |-> "waiting", cfg |-> [Endpoints |-> << >>], i |-> 0,
                 newEndpoints |-> EmptyMap]]

\* the configurations of the runs that follow the callers statement by
\* statement: enabled endpoints only
StepConfigs ==
    { c \in Configs : \A k \in DOMAIN c.Endpoints : c.Endpoints[k].Enabled }

StepReloadResults ==
    { [err |-> TRUE, cfg |-> [Endpoints |-> << >>]] }
        \cup { [err |-> FALSE, cfg |-> c] : c \in StepConfigs }

InitSteps ==
    /\ config \in StepConfigs
    /\ InitService
    /\ probeEndpoint = Base("u1")
    /\ probeOutcome = [err |-> "", code |-> 0, start |-> 0, elapsed |-> 0]
    /\ check = NoCheck
    /\ InitLoops
    /\ mu = "none"
    /\ threads = IdleThreads
    /\ InitManager

\* Start: s.mu.Lock()
StartLock ==
    /\ startPc = "init"
    /\ mu = "none"
    /\ mu' = "Start"
    /\ startPc' = "locked"
    /\ threads' = [threads EXCEPT !.startI = 1]
    /\ UNCHANGED <<config, endpoints, monitors, wg, rootCancelled, watchPc,
                   reconciled, shutdownPc, shutdownErr>>
    /\ UNCHANGED <<probeVars, loopVars, sm>>

\* Start: one iteration of the loop over s.config.Endpoints
StartIter ==
    /\ startPc = "locked"
    /\ threads.startI \in 1..Len(config.Endpoints)
    /\ LET e == config.Endpoints[threads.startI]
           st == IF e.Enabled
                 THEN startEndpoint(Locals(endpoints, monitors, wg), "root", e)
                 ELSE Locals(endpoints, monitors, wg)
       IN /\ endpoints' = st.endpoints
          /\ monitors' = st.monitors
          /\ wg' = st.wg
    /\ threads' = [threads EXCEPT !.startI = @ + 1]
    /\ UNCHANGED <<config, rootCancelled, startPc, watchPc, reconciled,
                   shutdownPc, shutdownErr, mu>>
    /\ UNCHANGED <<probeVars, loopVars, sm>>

\* Start: shutdownWg.Add(1) and go watchConfig
StartWatch ==
    /\ startPc = "locked"
    /\ threads.startI = Len(config.Endpoints) + 1
    /\ wg' = wg + 1
    /\ watchPc' = "waiting"
    /\ startPc' = "spawned"
    /\ threads' = [threads EXCEPT !.startI = 0]
    /\ UNCHANGED <<config, endpoints, monitors, rootCancelled, reconciled,
                   shutdownPc, shutdownErr, mu>>
    /\ UNCHANGED <<probeVars, loopVars, sm>>

\* Start returns nil: the deferred s.mu.Unlock()
StartReturn ==
    /\ startPc = "spawned"
    /\ startPc' = "done"
    /\ mu' = "none"
    /\ UNCHANGED <<config, endpoints, monitors, wg, rootCancelled, watchPc,
                   reconciled, shutdownPc, shutdownErr, threads>>
    /\ UNCHANGED <<probeVars, loopVars, sm>>

\* watchConfig's tick: reloadConfig calls s.onReload(), which blocks until
\* the collaborator returns r
ReloadFetch(r) ==
    /\ ProcessAlive
    /\ watchPc = "waiting"
    /\ threads.reload.pc = "waiting"
    /\ threads' = [threads EXCEPT !.reload.pc = "fetching", !.reload.cfg = r.cfg,
                                  !.reload.i = IF r.err THEN 0 ELSE 1]
    /\ UNCHANGED <<serviceVars, mu>>
    /\ UNCHANGED <<probeVars, loopVars, sm>>

\* s.onReload() has returned an error: reloadConfig returns it
ReloadFailed ==
    /\ ProcessAlive
    /\ threads.reload.pc = "fetching"
    /\ threads.reload.i = 0
    /\ threads' = [threads EXCEPT !.reload = IdleThreads.reload]
    /\ UNCHANGED <<serviceVars, mu>>
    /\ UNCHANGED <<probeVars, loopVars, sm>>

\* ReloadLock without s.mu.Lock()
ReloadLockNoMutex ==
    /\ ProcessAlive
    /\ threads.reload.pc = "fetching"
    /\ threads.reload.i = 1
    /\ threads' = [threads EXCEPT !.reload.pc = "locked",
                                  !.reload.newEndpoints = EmptyMap]
    /\ UNCHANGED <<serviceVars, mu>>
    /\ UNCHANGED <<probeVars, loopVars, sm>>

\* s.onReload() has returned a configuration: s.mu.Lock(), newEndpoints is made
ReloadLock ==
    /\ ProcessAlive
    /\ threads.reload.pc = "fetching"
    /\ threads.reload.i = 1
    /\ mu = "none"
    /\ mu' = "reload"
    /\ threads' = [threads EXCEPT !.reload.pc = "locked",
                                  !.reload.newEndpoints = EmptyMap]
    /\ UNCHANGED serviceVars
    /\ UNCHANGED <<probeVars, loopVars, sm>>

\* reloadConfig: one iteration of the loop over cfg.Monitor.Endpoints
ReloadIter ==
    /\ ProcessAlive
    /\ threads.reload.pc = "locked"
    /\ threads.reload.i \in 1..Len(threads.reload.cfg.Endpoints)
    /\ LET st == ReloadStep([Locals(endpoints, monitors, wg) EXCEPT
                                !.newEndpoints = threads.reload.newEndpoints],
                            threads.reload.cfg.Endpoints[threads.reload.i])
       IN /\ Len(st.monitors) <= MaxLoops
          /\ endpoints' = st.endpoints
          /\ monitors' = st.monitors
          /\ wg' = st.wg
          /\ threads' = [threads EXCEPT !.reload.i = @ + 1,
                                        !.reload.newEndpoints = st.newEndpoints]
    /\ UNCHANGED <<config, rootCancelled, startPc, watchPc, reconciled,
                   shutdownPc, shutdownErr, mu>>
    /\ UNCHANGED <<probeVars, loopVars, sm>>

\* reloadConfig: the removed monitors are cancelled, map and configuration
\* are replaced, and the deferred Unlock runs at return
ReloadReturn ==
    /\ ProcessAlive
    /\ threads.reload.pc = "locked"
    /\ threads.reload.i = Len(threads.reload.cfg.Endpoints) + 1
    /\ LET st == StopRemoved([Locals(endpoints, monitors, wg) EXCEPT
                                 !.newEndpoints = threads.reload.newEndpoints])
       IN /\ endpoints' = st.newEndpoints
          /\ monitors' = Sweep(st.monitors, st.newEndpoints)
    /\ config' = threads.reload.cfg
    /\ reconciled' = TRUE
    /\ mu' = "none"
    /\ threads' = [threads EXCEPT !.reload = IdleThreads.reload]
    /\ UNCHANGED <<wg, rootCancelled, startPc, watchPc, shutdownPc, shutdownErr>>
    /\ UNCHANGED <<probeVars, loopVars, sm>>

\* watchConfig observes ctx.Done() in its select, between two ticks
WatchExitBetweenTicks ==
    /\ threads.reload.pc = "waiting"
    /\ WatchExit

\* Shutdown: s.mu.Lock()
ShutdownLock ==
    /\ startPc = "done"
    /\ shutdownPc = "none"
    /\ mu = "none"
    /\ mu' = "Shutdown"
    /\ shutdownPc' = "locked"
    /\ UNCHANGED <<config, endpoints, monitors, wg, rootCancelled, startPc,
                   watchPc, reconciled, shutdownErr, threads>>
    /\ UNCHANGED <<probeVars, loopVars, sm>>

\* Shutdown: every monitor of the map is cancelled, s.mu.Unlock(), and the
\* wait for the drain begins
ShutdownCancel ==
    /\ shutdownPc = "locked"
    /\ monitors' = [i \in DOMAIN monitors |->
                      IF \E u \in DOMAIN endpoints : endpoints[u] = i
                      THEN [monitors[i] EXCEPT !.cancelled = TRUE]
                      ELSE monitors[i]]
    /\ shutdownPc' = "draining"
    /\ mu' = "none"
    /\ UNCHANGED <<config, endpoints, wg, rootCancelled, startPc, watchPc,
                   reconciled, shutdownErr, threads>>
    /\ UNCHANGED <<probeVars, loopVars, sm>>

NextSteps ==
    \/ StartLock
    \/ StartIter
    \/ StartWatch
    \/ StartReturn
    \/ \E r \in StepReloadResults : ReloadFetch(r)
    \/ ReloadFailed
    \/ ReloadLock
    \/ ReloadIter
    \/ ReloadReturn
    \/ ShutdownLock
    \/ ShutdownCancel
    \/ ShutdownReturnNil
    \/ ShutdownReturnTimeout
    \/ CancelRoot
    \/ WatchExitBetweenTicks
    \/ \E i \in DOMAIN monitors : MonitorExit(i)

SpecSteps == InitSteps /\ [][NextSteps]_vars

(* ---- the polling loops under fair scheduling ---- *)
\* the ticker of loop i fires, at whatever time: a tick is put in ticker.C (a
\* channel of capacity one) unless one is waiting there; the ticker of a loop
\* that has returned is stopped
TickerFires(i) ==
    /\ loops[i].pc # "returned"
    /\ ~loops[i].pending
    /\ loops' = [loops EXCEPT ![i].pending = TRUE]
    /\ UNCHANGED <<now, saved>>
    /\ UNCHANGED <<serviceVars, probeVars, lockVars, sm>>

\* the Service with its polling loops step by step; the clock is not
\* followed, and the goroutines are followed past the return of Shutdown
NextFair ==
    \/ StartAtNow
    \/ WatchTickAtNow
    \/ CancelRoot
    \/ WatchExit
    \/ Shutdown
    \/ ShutdownReturnNil
    \/ ShutdownReturnTimeout
    \/ \E i \in DOMAIN loops : TickerFires(i)
    \/ \E i \in DOMAIN loops : LoopTick(i)
    \/ \E i \in DOMAIN loops : \E ok \in BOOLEAN : SaveCheckStep(i, ok)
    \/ \E i \in DOMAIN loops : LoopExit(i)

\* the scheduling of the loops: a probe and its storage write return, and
\* the select of a loop, which picks at random among the cases that can
\* proceed, does not pass over <-ctx.Done() every time it can proceed
FairLoops ==
    \A i \in 1..MaxLoops :
        /\ WF_vars(i \in DOMAIN loops /\ \E ok \in BOOLEAN : SaveCheckStep(i, ok))
        /\ SF_vars(i \in DOMAIN loops /\ LoopExit(i))

SpecFair == InitAtNow /\ [][NextFair]_vars /\ FairLoops

(* ---- properties ---- *)
\* the monitors the map holds
Registered(eps) == { eps[u] : u \in DOMAIN eps }

\* the polling loops that are live: started, not returned, scope not cancelled
LiveLoop(i) == monitors[i].pc = "running" /\ ~ScopeCancelled(i)

\* Start has returned and nothing else has happened since
JustStarted ==
    /\ startPc = "done"
    /\ ~reconciled
    /\ shutdownPc = "none"
    /\ ~rootCancelled

LiveLoopsOf(e) == { i \in DOMAIN monitors : monitors[i].endpoint = e /\ LiveLoop(i) }

\* C1: after Start returns, every enabled endpoint of the initial configuration
\* has exactly one live polling loop, and that loop is the monitor the map
\* holds under the endpoint's URL; a disabled endpoint has no monitor at all.
C1_StartOneLiveMonitorPerEndpoint ==
    JustStarted =>
        \A k \in DOMAIN config.Endpoints :
            LET e == config.Endpoints[k]
            IN IF e.Enabled
               THEN /\ Cardinality(LiveLoopsOf(e)) = 1
                    /\ e.URL \in DOMAIN endpoints
                    /\ endpoints[e.URL] \in LiveLoopsOf(e)
               ELSE \A i \in DOMAIN monitors : monitors[i].endpoint # e

\* the endpoint e with one of the fields that reconciliation compares edited
FieldEdits(e) ==
    { [e EXCEPT !.Interval = IF @ = 60 THEN 30 ELSE 60],
      [e EXCEPT !.Timeout = IF @ = 10 THEN 5 ELSE 10],
      [e EXCEPT !.Name = IF @ = "n1" THEN "n2" ELSE "n1"],
      [e EXCEPT !.Tags = IF @ = <<"a", "b">> THEN <<"b", "a">> ELSE <<"a", "b">>] }

\* the entries of the endpoint list es that are enabled and have URL u
EnabledAt(es, u) == { k \in DOMAIN es : es[k].Enabled /\ es[k].URL = u }

\* the positions of op in the list of cancel and start calls of a reconciliation
OpAt(ops, op) == { p \in DOMAIN ops : ops[p] = op }

\* reconciling with cfg restarts the monitor of URL u with the descriptor e2:
\* the old monitor is cancelled, then a new monitor object is started and
\* registered, and no other cancel or start is made for that URL
RestartedBy(cfg, u, e2) ==
    \A st \in {Reconcile(endpoints, monitors, wg, cfg)} :
        LET old == endpoints[u]
            new == st.newEndpoints[u]
        IN /\ u \in DOMAIN st.newEndpoints
           /\ new \notin DOMAIN monitors
           /\ st.monitors[old].cancelled
           /\ st.monitors[new] = [endpoint |-> e2, cancelled |-> FALSE,
                                  parent |-> "background", pc |-> "running"]
           /\ \E p \in OpAt(st.ops, <<"cancel", old>>) :
                  \E q \in OpAt(st.ops, <<"start", new>>) : p < q
           /\ \A p \in DOMAIN st.ops :
                  st.monitors[st.ops[p][2]].endpoint.URL = u
                      => st.ops[p] \in { <<"cancel", old>>, <<"start", new>> }

\* reconciling with cfg leaves alone every monitor of the map whose URL is
\* not u and whose endpoint cfg lists unchanged, and every monitor that the
\* map does not hold
OthersUntouchedBy(cfg, u) ==
    \A st \in {Reconcile(endpoints, monitors, wg, cfg)} :
       /\ \A v \in (DOMAIN endpoints) \ {u} :
              ( /\ EnabledAt(cfg.Endpoints, v) # {}
                /\ \A k \in EnabledAt(cfg.Endpoints, v) :
                       cfg.Endpoints[k] = monitors[endpoints[v]].endpoint )
              => /\ v \in DOMAIN st.newEndpoints
                 /\ st.newEndpoints[v] = endpoints[v]
                 /\ st.monitors[endpoints[v]] = monitors[endpoints[v]]
       /\ \A i \in (DOMAIN monitors) \ Registered(endpoints) :
              st.monitors[i] = monitors[i]

ReconciledStep == reloadConfig([err |-> FALSE, cfg |-> config'])

\* the monitors this step created
Created == (DOMAIN monitors') \ (DOMAIN monitors)

\* a reconciliation with a configuration that does not enable a monitored URL
\* cancels that monitor and drops the URL from the map without a new monitor
RemovalStep ==
    ReconciledStep =>
        \A u \in (DOMAIN endpoints) \ EnabledURLs(config'.Endpoints) :
            /\ Reconcile(endpoints, monitors, wg, config').monitors[endpoints[u]].cancelled
            /\ monitors'[endpoints[u]].pc = "gone" \/ monitors'[endpoints[u]].cancelled
            /\ u \notin DOMAIN endpoints'
            /\ \A i \in Created : monitors'[i].endpoint.URL # u

\* once Start has returned, a monitor is created or a URL enters the map only
\* in a reconciliation whose configuration enables that URL
NoRestartUnlessEnabled ==
    startPc = "done" =>
        /\ \A i \in Created :
               /\ ReconciledStep
               /\ monitors'[i].endpoint.URL \in EnabledURLs(config'.Endpoints)
        /\ \A u \in (DOMAIN endpoints') \ (DOMAIN endpoints) :
               /\ ReconciledStep
               /\ u \in EnabledURLs(config'.Endpoints)

\* C3: a successful reconciliation with a configuration in which a monitored
\* URL is disabled or absent cancels that monitor and removes its map entry
\* without creating one; afterwards no monitor for the URL is started and the
\* URL does not return to the map until a reconciliation runs with a
\* configuration that enables it.
C3_DisabledEndpointRemovedUntilReenabled ==
    [][RemovalStep /\ NoRestartUnlessEnabled]_vars

\* a monitored URL was removed by a reconciliation: its loop is cancelled and
\* not yet returned, the map does not hold the URL, the stored configuration
\* does not enable it
C3_Witness ==
    /\ reconciled
    /\ \E i \in DOMAIN monitors :
           /\ monitors[i].pc = "running"
           /\ monitors[i].cancelled
           /\ monitors[i].endpoint.URL \notin DOMAIN endpoints
           /\ monitors[i].endpoint.URL \notin EnabledURLs(config.Endpoints)

\* C4: once a reconciliation has run, reconciling again with a configuration
\* identical to the stored one cancels no monitor, starts no monitor and
\* leaves the map with the same monitor objects, whatever the configuration
\* (URLs need not be distinct).
C4_ReconcileIdempotent ==
    reconciled =>
        \A st \in {Reconcile(endpoints, monitors, wg, config)} :
           /\ st.ops = << >>
           /\ st.monitors = monitors
           /\ st.newEndpoints = endpoints

\* C5: while Shutdown waits, as soon as every polling loop has observed its
\* cancellation and returned (at least one monitor was active), the wait
\* group is at zero, so that Shutdown returns nil without waiting for the
\* deadline.
C5_ShutdownCompletesWhenLoopsExit ==
    ( /\ shutdownPc = "draining"
      /\ endpoints # EmptyMap
      /\ \A i \in DOMAIN monitors : monitors[i].pc \in {"exited", "gone"} )
    => wg = 0

\* the return of Shutdown leaves every worker as it is, and it is the timeout
\* error when the wait group is not at zero
ShutdownReturnStep ==
    (shutdownPc = "draining" /\ shutdownPc' = "returned") =>
        /\ wg > 0 => shutdownErr' = "timeout"
        /\ shutdownErr' \in {"nil", "timeout"}
        /\ monitors' = monitors
        /\ wg' = wg
        /\ watchPc' = watchPc
        /\ endpoints' = endpoints

\* C6: when the deadline passes with the wait group above zero, Shutdown
\* returns the timeout error, and returning changes no worker: every loop
\* that has not observed its cancellation is still running and the counter
\* is unchanged.
C6_ShutdownTimeoutLeavesWorkers == [][ShutdownReturnStep]_vars

\* Shutdown has returned the timeout error while a cancelled loop was still
\* running
C6_Witness ==
    /\ shutdownErr = "timeout"
    /\ wg > 0
    /\ \E i \in DOMAIN monitors : monitors[i].pc = "running" /\ monitors[i].cancelled

\* a reloadConfig whose collaborator fails leaves the Service as it is
FailedReloadChangesNothing ==
    (watchPc = "waiting" /\ ProcessAlive) =>
        \A r \in { x \in ReloadResults : x.err } :
            LET out == reloadConfigOutcome(endpoints, monitors, wg, config, r)
            IN /\ out.err
               /\ out.endpoints = endpoints
               /\ out.config = config
               /\ out.monitors = monitors
               /\ out.wg = wg

\* the watch loop leaves its wait only when the root scope is cancelled
WatchLoopKeepsRunning ==
    (watchPc = "waiting" /\ watchPc' # "waiting") => (rootCancelled /\ watchPc' = "exited")

\* C7: a configuration-watch tick whose reload fails changes nothing: the
\* map, the stored configuration, every monitor and its scope and the
\* outstanding-worker counter are as before, and the watch loop stays in its
\* wait for the next tick.
C7_ReloadErrorSkipsCycle ==
    [] FailedReloadChangesNothing /\ [][WatchLoopKeepsRunning]_vars

\* the watch loop waits for a tick with monitors running after a reconciliation
C7_Witness ==
    /\ watchPc = "waiting"
    /\ ProcessAlive
    /\ reconciled
    /\ endpoints # EmptyMap
    /\ \E i \in DOMAIN monitors : LiveLoop(i)

\* C8: after Start and after every reconciliation the keys of the map are
\* exactly the URLs of the enabled endpoints of the stored configuration;
\* map and configuration are replaced in one step, so that no state shows
\* one without the other.
C8_MapKeysAreEnabledURLs ==
    startPc = "done" => DOMAIN endpoints = EnabledURLs(config.Endpoints)

\* after a reconciliation the stored configuration has a disabled endpoint
\* and an enabled one, and the map holds the enabled one
C8_Witness ==
    /\ reconciled
    /\ endpoints # EmptyMap
    /\ \E k \in DOMAIN config.Endpoints : ~config.Endpoints[k].Enabled

\* C9: the step that cancels the root scope cancels the scope of every
\* polling loop that exists at that moment, whether Start or a reconciliation
\* started it, and the scope of the configuration-watch loop.
C9_RootCancelsEveryLoop ==
    [][(~rootCancelled /\ rootCancelled') =>
           /\ \A i \in DOMAIN monitors' : ScopeCancelledIn(monitors', rootCancelled', i)
           /\ watchPc' = "waiting" => rootCancelled']_vars

\* C10: performHealthCheck classifies every outcome into exactly one status:
\* a failed request gives ERROR with the error message and no status code or
\* response time; code 200 gives UP with 200 recorded; any other code gives
\* DEGRADED with that code; the HealthCheck carries the endpoint's name, URL
\* and tags.
C10_ProbeClassification ==
    check # NoCheck =>
        /\ check.Name = probeEndpoint.Name
        /\ check.URL = probeEndpoint.URL
        /\ check.Tags = probeEndpoint.Tags
        /\ check.Status \in {"UP", "DEGRADED", "ERROR"}
        /\ probeOutcome.err # "" =>
               /\ check.Status = "ERROR"
               /\ check.Error = probeOutcome.err
               /\ check.Error # ""
               /\ check.StatusCode = 0
               /\ check.ResponseTime = 0
        /\ (probeOutcome.err = "" /\ probeOutcome.code = 200) =>
               /\ check.Status = "UP"
               /\ check.StatusCode = 200
               /\ check.Error = ""
        /\ (probeOutcome.err = "" /\ probeOutcome.code # 200) =>
               /\ check.Status = "DEGRADED"
               /\ check.StatusCode = probeOutcome.code
               /\ check.Error = ""

\* a 503 response was classified
C10_Witness ==
    /\ check.Status = "DEGRADED"
    /\ check.StatusCode = 503
    /\ probeOutcome.code = 503

\* loop i takes a tick in this step: a probe starts
ProbeStarts(i) == loops[i].pc = "select" /\ loops'[i].pc = "checking"

\* the first probe of a loop starts one interval after the loop was started
FirstProbeOneIntervalAfterStart(i) ==
    (ProbeStarts(i) /\ loops[i].lastCheck = 0) =>
        /\ now = loops[i].started + Ticks(monitors[i].endpoint.Interval)
        /\ now # loops[i].started

\* the loop of a monitor made by a reconciliation was started at the time of
\* that reconciliation
RestartResetsPhase ==
    \A i \in (DOMAIN loops') \ (DOMAIN loops) :
        /\ loops'[i].started = now
        /\ loops'[i].next = now + Ticks(monitors'[i].endpoint.Interval)
        /\ ~loops'[i].pending

\* a reconciliation at an earlier clock reading R has cancelled monitor i
\* and started a loop for the same URL in its place (that loop still waits
\* for its first tick, so that its start time R is on record)
ReplacedEarlier(i) ==
    /\ monitors[i].cancelled
    /\ \E j \in DOMAIN loops :
           /\ j > i
           /\ monitors[j].parent = "background"
           /\ monitors[j].endpoint.URL = monitors[i].endpoint.URL
           /\ loops[j].pc = "select"
           /\ loops[j].lastCheck = 0
           /\ loops[j].started < now

\* C11: a loop started at S with interval I starts its first probe at S+I and
\* not at S; a loop that a reconciliation at R starts in place of another has
\* its phase reset to R (first probe at R+I'); and the loop that the
\* reconciliation cancelled starts no probe at a clock reading after R.
C11_TickPhase ==
    [][/\ RestartResetsPhase
       /\ \A i \in DOMAIN loops :
              /\ FirstProbeOneIntervalAfterStart(i)
              /\ ProbeStarts(i) => ~ReplacedEarlier(i)]_vars

\* C14: a loop whose scope is cancelled starts no further probe, whatever is
\* pending in its ticker; a probe in flight at the cancellation is finished
\* and handed to the storage, and only then does the loop return.
C14_CancelledLoopStartsNoProbe ==
    [][\A i \in DOMAIN loops :
           /\ ProbeStarts(i) => ~ScopeCancelled(i)
           /\ loops[i].pc = "checking" => loops'[i].pc \in {"checking", "select"}]_vars

\* in this step storage.SaveCheck failed for the check of loop i
StorageFailureStep(i) ==
    /\ loops[i].pc = "checking"
    /\ loops'[i].pc # "checking"
    /\ saved' = saved

\* C15: when SaveCheck fails, the loop sets lastCheck to the timestamp of
\* that probe, is back in its select with its ticker on the same schedule,
\* and nothing else changes: no other loop, no monitor, not the map, the
\* stored configuration or the outstanding-worker counter, and nothing is
\* returned from the Service.
C15_StorageFailureKeepsLoop ==
    [][\A i \in DOMAIN loops :
           StorageFailureStep(i) =>
               /\ loops'[i].pc = "select"
               /\ loops'[i].lastCheck = loops[i].check
               /\ loops'[i].next = loops[i].next
               /\ loops'[i].pending = loops[i].pending
               /\ \A j \in (DOMAIN loops) \ {i} : loops'[j] = loops[j]
               /\ monitors' = monitors
               /\ monitors[i].pc = "running"
               /\ endpoints' = endpoints
               /\ config' = config
               /\ wg' = wg
               /\ shutdownErr' = shutdownErr
               /\ watchPc' = watchPc]_vars

\* a loop probes again after the storage refused its earlier check
C15_Witness ==
    \E i \in DOMAIN loops :
        /\ loops[i].pc = "checking"
        /\ loops[i].lastCheck # 0
        /\ loops[i].check > loops[i].lastCheck
        /\ saved = {}

\* C12: the cancel phase of Shutdown cancels the scope of every monitor of
\* the map and the scope of the configuration-watch loop, whether or not the
\* caller has cancelled the root scope.
C12_ShutdownCancelsWatchScope ==
    [][(shutdownPc = "none" /\ shutdownPc' = "draining") =>
           /\ \A u \in DOMAIN endpoints :
                  ScopeCancelledIn(monitors', rootCancelled', endpoints[u])
           /\ watchPc' = "waiting" => WatchScopeCancelled(rootCancelled')]_vars

\* C13: in every state every entry of the map has a live polling loop: the
\* monitor stored under a URL is running and its scope is not cancelled.
C13_MapEntriesAreLive ==
    \A u \in DOMAIN endpoints : LiveLoop(endpoints[u])

\* the state of monitor i in the state machine of the Endpoint Monitor
MonitorState(ms, root, i) ==
    IF ms[i].pc \in {"exited", "gone"} THEN "Stopped"
    ELSE IF ScopeCancelledIn(ms, root, i) THEN "CancelRequested"
    ELSE "Running"

\* this step is the exit of the loop of monitor i and of nothing else
OwnLoopExit(i) ==
    /\ wg' = wg - 1
    /\ <<config', endpoints', rootCancelled', startPc', watchPc', reconciled',
         shutdownPc', shutdownErr'>>
         = <<config, endpoints, rootCancelled, startPc, watchPc, reconciled,
             shutdownPc, shutdownErr>>
    /\ \A j \in (DOMAIN monitors) \ {i} :
           MonitorState(monitors', rootCancelled', j)
               = MonitorState(monitors, rootCancelled, j)

\* C16: a monitor is made with its loop running (Running, or CancelRequested
\* when the same critical section cancels it again); from Running it goes
\* only to CancelRequested, from CancelRequested only to Stopped, and
\* Stopped is final; it reaches Stopped only in the step in which its own
\* loop returns, never in a step of reloadConfig or of Shutdown (its cancel
\* phase or its return, with or without timeout).
C16_MonitorLifecycle ==
    [][/\ \A i \in Created :
              MonitorState(monitors', rootCancelled', i)
                  \in {"Running", "CancelRequested"}
       /\ \A i \in DOMAIN monitors :
              LET a == MonitorState(monitors, rootCancelled, i)
                  b == MonitorState(monitors', rootCancelled', i)
              IN /\ a = "Running" => b \in {"Running", "CancelRequested"}
                 /\ a = "CancelRequested" => b \in {"CancelRequested", "Stopped"}
                 /\ a = "Stopped" => b = "Stopped"
                 /\ (a # "Stopped" /\ b = "Stopped") => OwnLoopExit(i)]_vars

\* while Shutdown drains after its cancel phase, one monitor has stopped and
\* another, cancelled by a reconciliation, has not yet observed it
C16_Witness ==
    /\ shutdownPc = "draining"
    /\ \E i, j \in DOMAIN monitors :
           /\ monitors[i].pc = "exited"
           /\ monitors[j].pc = "running"
           /\ monitors[j].cancelled
           /\ monitors[j].endpoint.URL \notin DOMAIN endpoints

\* the descriptors a reload may hold for the URL of the snapshot e: each of
\* name, interval, timeout and description as in e or edited, the tags as in
\* e, in reverse order, or cut short
Variants(e) ==
    { [e EXCEPT !.Name = n, !.Interval = v, !.Timeout = t, !.Description = d,
                !.Tags = g] :
          n \in {e.Name, "n2"}, v \in {e.Interval, 90}, t \in {e.Timeout, 5},
          d \in {e.Description, "d2"},
          g \in {e.Tags, <<e.Tags[2], e.Tags[1]>>, <<e.Tags[1]>>} }

\* name, interval and timeout are equal and the tags are equal element by
\* element in the same order
SameSchedule(a, b) ==
    /\ a.Name = b.Name
    /\ a.Interval = b.Interval
    /\ a.Timeout = b.Timeout
    /\ Len(a.Tags) = Len(b.Tags)
    /\ \A p \in 1..Len(a.Tags) : a.Tags[p] = b.Tags[p]

\* C18: for every URL of the map and every descriptor a reload may hold for
\* it, reconciliation leaves the monitor as it is (same object, same
\* snapshot, no cancel, no start) exactly when name, interval, timeout and
\* the tags in order equal the snapshot's; otherwise it cancels the monitor
\* and registers a new one. A change of the description alone leaves the
\* monitor with its old snapshot; the same tags in another order restart it.
C18_UnchangedExactlyWhenFieldsEqual ==
    startPc = "done" =>
        \A u \in DOMAIN endpoints :
            LET id == endpoints[u]
                e == monitors[id].endpoint
            IN \A e2 \in Variants(e) :
                   \A st \in {Reconcile(endpoints, monitors, wg,
                                       [Endpoints |-> <<e2>>])} :
                      IF SameSchedule(e, e2)
                      THEN /\ st.newEndpoints[u] = id
                           /\ st.monitors[id] = monitors[id]
                           /\ OpAt(st.ops, <<"cancel", id>>) = {}
                           /\ Len(st.monitors) = Len(monitors)
                      ELSE /\ st.newEndpoints[u] # id
                           /\ st.monitors[id].cancelled
                           /\ st.monitors[st.newEndpoints[u]].endpoint = e2
                           /\ Len(st.monitors) = Len(monitors) + 1

\* after a reconciliation the map still holds the monitor that Start made,
\* with its loop waiting for a tick
C18_Witness ==
    /\ reconciled
    /\ \E u \in DOMAIN endpoints :
           /\ monitors[endpoints[u]].parent = "root"
           /\ LiveLoop(endpoints[u])
           /\ loops[endpoints[u]].pc = "select"

\* the polling loops that have been started and have not returned
RunningLoops == { i \in DOMAIN monitors : monitors[i].pc = "running" }

\* C20: in every state the outstanding-worker counter is the number of
\* polling loops started and not yet returned, plus one while the
\* configuration-watch loop is started and not returned; it is never
\* negative.
C20_CounterMatchesLoops ==
    /\ wg = Cardinality(RunningLoops) + (IF watchPc = "waiting" THEN 1 ELSE 0)
    /\ wg >= 0

\* loops were started by Start and by a reconciliation, one of them has
\* returned, and the watch loop has returned
C20_Witness ==
    /\ reconciled
    /\ watchPc = "exited"
    /\ wg >= 1
    /\ \E i \in DOMAIN monitors : monitors[i].pc = "exited"
    /\ \E i \in DOMAIN monitors : monitors[i].parent = "background"

\* this step is the return of ShutdownManager.Shutdown
ManagerReturnStep == sm.pc = "select" /\ sm'.pc = "returned"

\* C19: ShutdownManager.Shutdown returns true only when the count has
\* reached zero, and does so whenever it returns before the deadline (at the
\* reading of the call when the count is zero then); it returns false only
\* when the deadline has elapsed, and does so whenever the count was not seen
\* at zero; neither the call nor the return changes the count.
C19_DrainWithDeadline ==
    [][/\ ManagerReturnStep =>
              /\ sm'.result \in {"true", "false"}
              /\ sm'.result = "true" => sm.done
              /\ sm'.result = "false" => now >= sm.deadline
              /\ now < sm.deadline => sm'.result = "true"
              /\ ~sm.done => sm'.result = "false"
              /\ sm'.wg = sm.wg
       /\ (sm.pc = "idle" /\ sm'.pc = "select") =>
              (sm'.wg = sm.wg /\ sm'.deadline = now + ManagerTimeout)
       /\ (sm.pc = "select" /\ (sm.done \/ (sm.waiter = "waiting" /\ sm.wg = 0)))
              => now' = now]_vars

\* Shutdown has returned false at the deadline with a worker outstanding
C19_Witness ==
    /\ sm # << >>
    /\ sm.pc = "returned"
    /\ sm.result = "false"
    /\ sm.wg > 0
    /\ now >= ManagerTimeout

\* the callers inside their critical sections
StartInCS == startPc \in {"locked", "spawned"}

ReloadInCS == threads.reload.pc = "locked"

ShutdownInCS == shutdownPc = "locked"

\* the lock is held exactly by the caller that is between its Lock and its
\* Unlock, so no two callers are there together, and it is not held by a
\* caller that is in s.onReload() or in the wait for the drain
LockHeldInCriticalSectionOnly ==
    /\ (mu = "Start") = StartInCS
    /\ (mu = "reload") = ReloadInCS
    /\ (mu = "Shutdown") = ShutdownInCS
    /\ mu \in {"none", "Start", "reload", "Shutdown"}
    /\ threads.reload.pc = "fetching" => mu # "reload"
    /\ shutdownPc = "draining" => mu # "Shutdown"

\* a step taken by another goroutine while reloadConfig is between its Lock
\* and its Unlock writes neither the map nor the stored configuration, makes
\* no monitor and cancels none
ReconcileUndisturbed ==
    (ReloadInCS /\ threads'.reload = threads.reload) =>
        /\ endpoints' = endpoints
        /\ config' = config
        /\ Len(monitors') = Len(monitors)
        /\ \A i \in DOMAIN monitors :
               monitors'[i].cancelled = monitors[i].cancelled
                   \/ monitors'[i].pc = "gone"

\* while Start is between its Lock and its Unlock no reconciliation and no
\* cancel phase of Shutdown takes a step
StartUndisturbed ==
    (StartInCS /\ StartInCS') =>
        /\ threads'.reload.pc = "locked" => threads.reload = threads'.reload
        /\ threads.reload.pc # "locked" => threads'.reload.pc # "locked"
        /\ shutdownPc' = shutdownPc

\* C17: the Service lock is held by reloadConfig from before its first read
\* of the map to after the replacement of map and configuration, by Start
\* for its whole body and by Shutdown for its cancel phase, never by two of
\* them; so no step of Start or of Shutdown's cancel phase falls inside a
\* reconciliation; and the lock is not held during s.onReload() or during
\* the wait for the drain (the polling loops, which probe and save, never
\* take it).
C17_LockSerializesReconciliation ==
    [] LockHeldInCriticalSectionOnly
        /\ [][ReconcileUndisturbed /\ StartUndisturbed]_vars

\* reloadConfig is in the middle of its diff (one endpoint done, one to
\* go, a monitor cancelled and replaced) while monitors run and Shutdown
\* has not yet run
C17_Witness ==
    /\ threads # << >>
    /\ ReloadInCS
    /\ mu = "reload"
    /\ threads.reload.i = 2
    /\ Len(threads.reload.cfg.Endpoints) = 2
    /\ shutdownPc = "none"
    /\ \E i \in DOMAIN monitors : monitors[i].cancelled /\ monitors[i].pc = "running"

\* C21: no orphan polling loops: in every state every polling loop that is
\* running with its scope not cancelled is the monitor the map holds for its
\* URL, so a URL has at most one such loop, for every configuration given to
\* Start or returned by a reload (two enabled endpoints of one URL included).
C21_NoOrphanLoops ==
    /\ \A i \in DOMAIN monitors : LiveLoop(i) => i \in Registered(endpoints)
    /\ \A i, j \in DOMAIN monitors :
           (/\ LiveLoop(i)
            /\ LiveLoop(j)
            /\ monitors[i].endpoint.URL = monitors[j].endpoint.URL) => i = j

\* C22: once Shutdown has run its cancel phase no step starts a polling loop
\* and no step increments the outstanding-worker counter; a reload tick that
\* fires while Shutdown is draining starts or restarts no monitor.
C22_NoStartAfterShutdown ==
    [][shutdownPc # "none" => (Created = {} /\ wg' <= wg)]_vars

\* polling loop i has been started and has not returned
LoopRunning(i) == i \in DOMAIN loops /\ loops[i].pc # "returned"

\* C23: under fair scheduling, with every probe and storage write returning,
\* every polling loop whose scope is cancelled (by a replacement or a removal
\* in a reconciliation, by Shutdown or by the root scope) eventually returns,
\* and the step in which a loop returns takes one off the outstanding-worker
\* counter; no cancelled loop probes forever.
C23_CancelledLoopExits ==
    /\ \A i \in 1..MaxLoops :
           (LoopRunning(i) /\ ScopeCancelled(i)) ~> ~LoopRunning(i)
    /\ [][\A i \in DOMAIN loops :
             (loops[i].pc # "returned" /\ loops'[i].pc = "returned")
                 => wg' = wg - 1]_vars

\* a replaced loop has returned and is forgotten, the loop that replaced it
\* was cancelled by Shutdown and has returned, a check was stored
C23_Witness ==
    /\ shutdownPc # "none"
    /\ saved # {}
    /\ \E i, j \in DOMAIN loops :
           /\ monitors[i].pc = "gone"
           /\ monitors[j].pc = "exited"
           /\ monitors[j].cancelled
           /\ loops[i].pc = "returned"
           /\ loops[j].pc = "returned"

====
